---- MODULE Spec2Model ----
(***************************************************************************)
(* autoparser: the dataclass -> argparse bridge of src/autoparser.py.      *)
(*                                                                         *)
(* Python strings are sequences of one-character strings, so that the      *)
(* conversions the code and argparse perform on them (replace, lstrip,     *)
(* int(), prefix tests) are computed and not assumed.  Python values are   *)
(* records [t, i, s]: a type tag, an integer payload and a string payload. *)
(* argparse itself is the external collaborator: the operators ap_* model  *)
(* what the calls the code makes on it do (CPython 3.11), for the          *)
(* arguments the code passes.  The automatic -h/--help option, option      *)
(* abbreviations, "--" and "--opt=value" are not among the tokens drawn.   *)
(***************************************************************************)
EXTENDS Integers, Sequences, FiniteSets, TLC

VARIABLES
    builders,   \* path -> the _Parser object the caller holds for that node
    parsers,    \* path -> the argparse.ArgumentParser at that node
    registered, \* path -> the schema and handler of each add_subparser that returned
    last        \* the last call made on the API and how it ended

vars == <<builders, parsers, registered, last>>

----------------------------------------------------------------------------
(* Strings *)

Digits == <<"0", "1", "2", "3", "4", "5", "6", "7", "8", "9">>

IsDigit(c) == \E k \in 1..10 : Digits[k] = c

DigitVal(c) == (CHOOSE k \in 1..10 : Digits[k] = c) - 1

\* str.replace(old, new) for one-character old and new
Replace(s, old, new) == [k \in 1..Len(s) |-> IF s[k] = old THEN new ELSE s[k]]

RECURSIVE LStrip(_, _)
\* str.lstrip(c)
LStrip(s, c) == IF s # <<>> /\ Head(s) = c THEN LStrip(Tail(s), c) ELSE s

StartsWith(s, c) == s # <<>> /\ Head(s) = c

RECURSIVE DigitsToNat(_, _)
DigitsToNat(s, acc) ==
    IF s = <<>> THEN acc ELSE DigitsToNat(Tail(s), acc * 10 + DigitVal(Head(s)))

AllDigits(s) == s # <<>> /\ \A k \in 1..Len(s) : IsDigit(s[k])

\* what int(token) accepts among the tokens drawn: an optional sign, then digits
IsIntLiteral(s) ==
    IF StartsWith(s, "-") \/ StartsWith(s, "+") THEN AllDigits(Tail(s)) ELSE AllDigits(s)

IntOf(s) ==
    IF StartsWith(s, "-") THEN 0 - DigitsToNat(Tail(s), 0)
    ELSE IF StartsWith(s, "+") THEN DigitsToNat(Tail(s), 0)
    ELSE DigitsToNat(s, 0)

----------------------------------------------------------------------------
(* Python values *)

Val(t, i, s) == [t |-> t, i |-> i, s |-> s]

IntVal(n) == Val("int", n, <<>>)
StrVal(s) == Val("str", 0, s)
BoolVal(b) == Val("bool", IF b THEN 1 ELSE 0, <<>>)
NoneVal == Val("None", 0, <<>>)
MISSING == Val("MISSING", 0, <<>>)
\* list(token): the list of the token's characters
ListVal(s) == Val("list", 0, s)
DictVal == Val("dict", 0, <<>>)
\* a class object and a function object, by name
ClassVal(id) == Val("class", 0, id)
FuncVal(h) == Val("function", 0, h)
\* a default_factory, by the value it makes
Factory(v) == Val("factory", v.i, v.s)

----------------------------------------------------------------------------
(* Arg and the annotations of a field *)

NoKw == [keys |-> {}, action |-> "", type |-> "", default |-> NoneVal]

KwAction(a) == [NoKw EXCEPT !.keys = {"action"}, !.action = a]

\* dict.setdefault on the keyword options
setdefault(kw, key, value) ==
    IF key \in kw.keys THEN kw
    ELSE IF key = "action" THEN [kw EXCEPT !.keys = @ \cup {key}, !.action = value]
    ELSE IF key = "type" THEN [kw EXCEPT !.keys = @ \cup {key}, !.type = value]
    ELSE [kw EXCEPT !.keys = @ \cup {key}, !.default = value]

\* Arg(*flags, **kwargs)
Arg(flags, kwargs) == [isArg |-> TRUE, flags |-> flags, kwargs |-> kwargs]

\* any other metadata of an Annotated type
OtherMeta == [isArg |-> FALSE, flags |-> <<>>, kwargs |-> NoKw]

Plain(type) == [origin |-> "none", type |-> type, meta |-> <<>>]

Annotated(type, meta) == [origin |-> "Annotated", type |-> type, meta |-> meta]

\* a dataclasses.Field: its name, its declared type, default and default_factory
Field(name, ann, default, default_factory) ==
    [name |-> name, type |-> ann, default |-> default,
     default_factory |-> default_factory]

\* _extract_field_options: (base_type, flags, argparse_kwargs)
extract_field_options(ann) ==
    IF ann.origin = "Annotated"
    THEN LET hits == {k \in 1..Len(ann.meta) : ann.meta[k].isArg}
             found == hits # {}
             arg_meta == ann.meta[CHOOSE k \in hits : \A j \in hits : k <= j]
         IN  [base |-> ann.type,
              flags |-> IF found /\ Len(arg_meta.flags) > 0 THEN arg_meta.flags ELSE <<>>,
              kwargs |-> IF found THEN arg_meta.kwargs ELSE NoKw]
    ELSE [base |-> ann.type, flags |-> <<>>, kwargs |-> NoKw]

----------------------------------------------------------------------------
(* argparse: building a parser *)

EmptyFn == [x \in {} |-> NoneVal]

\* argparse.ArgumentParser(): no arguments, no sub-parsers action, no defaults
ap_ArgumentParser ==
    [actions |-> <<>>, subparsers |-> FALSE, choices |-> {}, defaults |-> EmptyFn]

NoDest == [given |-> FALSE, name |-> <<>>]

Dest(name) == [given |-> TRUE, name |-> name]

\* callable(type): every type expression but a PEP 604 union (types.UnionType)
Callable(type) == type # "int|str"

ap_option_strings(parser) ==
    UNION {{parser.actions[k].option_strings[j] :
                j \in 1..Len(parser.actions[k].option_strings)} :
           k \in 1..Len(parser.actions)}

\* the option string argparse derives the dest from: the first long one, else the first
ap_dest_option_string(flags) ==
    LET longs == {k \in 1..Len(flags) : Len(flags[k]) > 1 /\ flags[k][2] = "-"}
    IN  IF longs # {} THEN flags[CHOOSE k \in longs : \A j \in longs : k <= j]
        ELSE flags[1]

\* parser.add_argument(*flags, [dest=dest], **kw): the parser afterwards and what was
\* raised.  An add_argument that raises has registered nothing.
ap_add_argument(parser, flags, dest, kw) ==
    LET positional == Len(flags) = 1 /\ ~StartsWith(flags[1], "-")
        action == IF "action" \in kw.keys THEN kw.action ELSE "store"
        stripped == LStrip(ap_dest_option_string(flags), "-")
        thedest == IF positional THEN flags[1]
                   ELSE IF dest.given THEN dest.name
                   ELSE Replace(stripped, "-", "_")
        default == IF "default" \in kw.keys THEN kw.default
                   ELSE IF action = "store_true" THEN BoolVal(FALSE)
                   ELSE IF action = "store_false" THEN BoolVal(TRUE)
                   ELSE NoneVal
        raised ==
            IF positional /\ dest.given
                THEN "ValueError: dest supplied twice for positional argument"
            ELSE IF ~positional /\ \E k \in 1..Len(flags) : ~StartsWith(flags[k], "-")
                THEN "ValueError: invalid option string"
            ELSE IF ~positional /\ ~dest.given /\ stripped = <<>>
                THEN "ValueError: dest= is required"
            ELSE IF action \notin {"store", "store_true", "store_false"}
                THEN "ValueError: unknown action"
            ELSE IF action # "store" /\ "type" \in kw.keys
                THEN "TypeError: unexpected keyword argument 'type'"
            ELSE IF "type" \in kw.keys /\ ~Callable(kw.type)
                THEN "ValueError: type is not callable"
            ELSE IF ~positional
                    /\ \E k \in 1..Len(flags) : flags[k] \in ap_option_strings(parser)
                THEN "ArgumentError: conflicting option string"
            ELSE ""
        argument == [option_strings |-> IF positional THEN <<>> ELSE flags,
                     dest |-> thedest,
                     action |-> action,
                     type |-> IF "type" \in kw.keys THEN kw.type ELSE "",
                     default |-> default,
                     required |-> positional]
    IN  IF raised # "" THEN [parser |-> parser, raised |-> raised]
        ELSE [parser |-> [parser EXCEPT !.actions = Append(@, argument)],
              raised |-> ""]

\* parser.add_subparsers(dest='_cmd', required=True)
ap_add_subparsers(parser) == [parser EXCEPT !.subparsers = TRUE]

\* parser.set_defaults(**kwargs)
ap_set_defaults(parser, kwargs) == [parser EXCEPT !.defaults = kwargs @@ @]

----------------------------------------------------------------------------
(* _add_dataclass_arguments *)

\* lines 60-70: the flags the field is registered with
field_flags(f, typ, flags) ==
    IF Len(flags) = 0
    THEN IF typ = "bool"
         THEN << <<"-", "-">> \o Replace(f.name, "_", "-") >>
         ELSE <<f.name>>
    ELSE flags

\* lines 72-77: the implicit action of a bool, the implicit type of anything else
field_action(f, typ, kw) ==
    IF typ = "bool"
    THEN IF "action" \notin kw.keys
         THEN setdefault(kw, "action",
                         IF f.default = BoolVal(TRUE) THEN "store_false" ELSE "store_true")
         ELSE kw
    ELSE setdefault(kw, "type", typ)

\* lines 79-81: required vs optional
field_default(f, kw) ==
    IF f.default # MISSING \/ f.default_factory # MISSING
    THEN setdefault(kw, "default", f.default)
    ELSE kw

\* one iteration of the loop over the fields (lines 58-86)
add_field_argument(parser, f) ==
    LET opts == extract_field_options(f.type)
        positional == Len(opts.flags) = 0
    IN  ap_add_argument(parser,
                        field_flags(f, opts.base, opts.flags),
                        IF positional THEN NoDest ELSE Dest(f.name),
                        field_default(f, field_action(f, opts.base, opts.kwargs)))

RECURSIVE add_dataclass_arguments_from(_, _, _)
add_dataclass_arguments_from(parser, fields, k) ==
    IF k > Len(fields) THEN [parser |-> parser, raised |-> ""]
    ELSE LET rest(r) == IF r.raised # "" THEN r
                        ELSE add_dataclass_arguments_from(r.parser, fields, k + 1)
         IN  rest(add_field_argument(parser, fields[k]))

----------------------------------------------------------------------------
(* argparse: parsing *)

\* the dest the code gives the sub-parsers action (line 115)
ap_cmd == <<"_", "c", "m", "d">>

Ok(v) == [ok |-> TRUE, value |-> v]
Bad == [ok |-> FALSE, value |-> NoneVal]

\* type(token), as argparse calls it on an argument string; a TypeError or
\* ValueError there is an invalid-argument error
ap_get_value(type, token) ==
    IF type \in {"", "str"} THEN Ok(StrVal(token))
    ELSE IF type = "int"
        THEN IF IsIntLiteral(token) THEN Ok(IntVal(IntOf(token))) ELSE Bad
    ELSE IF type = "bool" THEN Ok(BoolVal(token # <<>>))
    ELSE IF type \in {"list[int]", "list[int,str]"} THEN Ok(ListVal(token))
    ELSE IF type = "dict[str,int]" THEN IF token = <<>> THEN Ok(DictVal) ELSE Bad
    ELSE Bad

IsNegNumber(s) == StartsWith(s, "-") /\ AllDigits(Tail(s))

\* whether argparse takes the token for an argument (not for an option): it does not
\* start with "-", or is "-", or looks like a negative number while no option does
ap_is_arg(parser, token) ==
    \/ ~StartsWith(token, "-")
    \/ Len(token) = 1
    \/ /\ IsNegNumber(token)
       /\ \A o \in ap_option_strings(parser) : ~IsNegNumber(o)

\* the namespace before any token is read: each argument's default under its dest
\* (the first argument of a dest wins), then the sub-command dest, then set_defaults
ap_initial_namespace(parser) ==
    LET dests == {parser.actions[k].dest : k \in 1..Len(parser.actions)}
        first(d) == CHOOSE k \in 1..Len(parser.actions) :
                        /\ parser.actions[k].dest = d
                        /\ \A j \in 1..Len(parser.actions) :
                              parser.actions[j].dest = d => k <= j
        byDest == [d \in dests |-> parser.actions[first(d)].default]
        cmd == IF parser.subparsers THEN ap_cmd :> NoneVal ELSE EmptyFn
    IN  (byDest @@ cmd) @@ parser.defaults

ParseError == [err |-> TRUE, ns |-> EmptyFn, seen |-> {}]

RECURSIVE ap_consume(_, _, _, _)
\* the loop over the argument strings of a parser without sub-parsers
ap_consume(parser, toks, ns, seen) ==
    IF toks = <<>> THEN [err |-> FALSE, ns |-> ns, seen |-> seen]
    ELSE
    LET t == Head(toks)
        n == Len(parser.actions)
        opt == {k \in 1..n : \E j \in 1..Len(parser.actions[k].option_strings) :
                                 parser.actions[k].option_strings[j] = t}
        pos == {k \in 1..n : parser.actions[k].option_strings = <<>> /\ k \notin seen}
    IN  IF opt # {}
        THEN LET k == CHOOSE x \in opt : TRUE
                 a == parser.actions[k]
             IN  IF a.action = "store"
                 THEN IF Len(toks) >= 2 /\ ap_is_arg(parser, toks[2])
                      THEN LET v == ap_get_value(a.type, toks[2])
                           IN  IF v.ok
                               THEN ap_consume(parser, Tail(Tail(toks)),
                                               (a.dest :> v.value) @@ ns, seen \cup {k})
                               ELSE ParseError
                      ELSE ParseError
                 ELSE ap_consume(parser, Tail(toks),
                                 (a.dest :> BoolVal(a.action = "store_true")) @@ ns,
                                 seen \cup {k})
        ELSE IF ap_is_arg(parser, t) /\ pos # {}
        THEN LET k == CHOOSE x \in pos : \A y \in pos : x <= y
                 a == parser.actions[k]
                 v == ap_get_value(a.type, t)
             IN  IF v.ok
                 THEN ap_consume(parser, Tail(toks), (a.dest :> v.value) @@ ns,
                                 seen \cup {k})
                 ELSE ParseError
        ELSE ParseError

\* after the loop: a required argument not seen is an error; a string default of an
\* argument not seen is converted by the argument's type
ap_finish(parser, r) ==
    LET n == Len(parser.actions)
        unseen == (1..n) \ r.seen
        strdef == {k \in unseen : /\ parser.actions[k].default.t = "str"
                                  /\ r.ns[parser.actions[k].dest] = parser.actions[k].default}
        conv(k) == ap_get_value(parser.actions[k].type, parser.actions[k].default.s)
        dests == {parser.actions[k].dest : k \in strdef}
        of(d) == CHOOSE k \in strdef : parser.actions[k].dest = d
    IN  IF r.err THEN ParseError
        ELSE IF \E k \in unseen : parser.actions[k].required THEN ParseError
        ELSE IF \E k \in strdef : ~conv(k).ok THEN ParseError
        ELSE [err |-> FALSE, ns |-> [d \in dests |-> conv(of(d)).value] @@ r.ns,
              seen |-> r.seen]

RECURSIVE ap_parse_args(_, _, _)
\* parsers[path].parse_args(argv): err is the usage error (error(): SystemExit 2)
ap_parse_args(ps, path, argv) ==
    LET parser == ps[path]
        ns0 == ap_initial_namespace(parser)
    IN  IF ~parser.subparsers
        THEN ap_finish(parser, ap_consume(parser, argv, ns0, {}))
        ELSE IF argv = <<>> THEN ParseError
        ELSE IF ~ap_is_arg(parser, Head(argv)) THEN ParseError
        ELSE IF Head(argv) \notin parser.choices THEN ParseError
        ELSE LET sub == ap_parse_args(ps, Append(path, Head(argv)), Tail(argv))
             IN  IF sub.err THEN ParseError
                 ELSE [err |-> FALSE,
                       ns |-> sub.ns @@ ((ap_cmd :> StrVal(Head(argv))) @@ ns0),
                       seen |-> {}]

----------------------------------------------------------------------------
(* Schemas *)

k_cls == <<"_", "c", "l", "s">>
k_handler == <<"_", "h", "a", "n", "d", "l", "e", "r">>
k_cmd == ap_cmd

\* the schema argument of _Parser: a tuple of names, a dataclass, or anything else
TupleSchema(names) == [kind |-> "tuple", names |-> names, cls |-> <<>>]
Dataclass(cls) == [kind |-> "dataclass", names |-> <<>>, cls |-> cls]
OtherSchema == [kind |-> "other", names |-> <<>>, cls |-> <<>>]

s_port == <<"p", "o", "r", "t">>
s_name == <<"n", "a", "m", "e">>
s_count == <<"c", "o", "u", "n", "t">>
s_verbose == <<"v", "e", "r", "b", "o", "s", "e">>
s_level == <<"l", "e", "v", "e", "l">>
s_dry_run == <<"d", "r", "y", "_", "r", "u", "n">>
s_color == <<"c", "o", "l", "o", "r">>
s_tag == <<"t", "a", "g">>
s_quiet == <<"q", "u", "i", "e", "t">>
s_debug == <<"_", "d", "e", "b", "u", "g">>
s_off == <<"o", "f", "f">>
s_n == <<"n">>
s_x == <<"x">>
s_a == <<"a">>
s_alice == <<"a", "l", "i", "c", "e">>

Opt(name) == <<"-", "-">> \o name

c_Port == <<"P", "o", "r", "t">>
c_Named == <<"N", "a", "m", "e", "d">>
c_User == <<"U", "s", "e", "r">>
c_Flagged == <<"F", "l", "a", "g", "g", "e", "d">>
c_Made == <<"M", "a", "d", "e">>
c_Private == <<"P", "r", "i", "v", "a", "t", "e">>
c_Explicit == <<"E", "x", "p", "l", "i", "c", "i", "t">>
c_Needed == <<"N", "e", "e", "d", "e", "d">>
c_Dict == <<"D", "i", "c", "t">>
c_Union3 == <<"U", "n", "i", "o", "n", "3">>
c_List2 == <<"L", "i", "s", "t", "2">>
c_Pep604 == <<"P", "e", "p", "6", "0", "4">>
c_Optional == <<"O", "p", "t", "i", "o", "n", "a", "l">>
c_List1 == <<"L", "i", "s", "t", "1">>

\* dataclasses.fields(cls), for the dataclasses the model draws from
fields(cls) ==
    \* Port {port: int}
    IF cls = c_Port THEN <<Field(s_port, Plain("int"), MISSING, MISSING)>>
    \* Named {name: str, verbose: bool = False}
    ELSE IF cls = c_Named
        THEN <<Field(s_name, Plain("str"), MISSING, MISSING),
               Field(s_verbose, Plain("bool"), BoolVal(FALSE), MISSING)>>
    \* User {name: str, count: int = 1, verbose: bool = False}
    ELSE IF cls = c_User
        THEN <<Field(s_name, Plain("str"), MISSING, MISSING),
               Field(s_count, Plain("int"), IntVal(1), MISSING),
               Field(s_verbose, Plain("bool"), BoolVal(FALSE), MISSING)>>
    \* Flagged {level: Annotated[int, "doc", Arg("-l", "--level")] = 3,
    \*          dry_run: bool = False, color: bool = True}
    ELSE IF cls = c_Flagged
        THEN <<Field(s_level,
                     Annotated("int", <<OtherMeta, Arg(<<<<"-", "l">>, Opt(s_level)>>, NoKw)>>),
                     IntVal(3), MISSING),
               Field(s_dry_run, Plain("bool"), BoolVal(FALSE), MISSING),
               Field(s_color, Plain("bool"), BoolVal(TRUE), MISSING)>>
    \* Made {tag: Annotated[str, Arg("--tag")] = field(default_factory=str),
    \*       quiet: bool = field(default_factory=bool)}
    ELSE IF cls = c_Made
        THEN <<Field(s_tag, Annotated("str", <<Arg(<<Opt(s_tag)>>, NoKw)>>),
                     MISSING, Factory(StrVal(<<>>))),
               Field(s_quiet, Plain("bool"), MISSING, Factory(BoolVal(FALSE)))>>
    \* Private {_debug: bool = False}
    ELSE IF cls = c_Private
        THEN <<Field(s_debug, Plain("bool"), BoolVal(FALSE), MISSING)>>
    \* Explicit {verbose: Annotated[bool, Arg()],
    \*           off: Annotated[bool, Arg("--off", action="store_false")] = False}
    ELSE IF cls = c_Explicit
        THEN <<Field(s_verbose, Annotated("bool", <<Arg(<<>>, NoKw)>>), MISSING, MISSING),
               Field(s_off,
                     Annotated("bool", <<Arg(<<Opt(s_off)>>, KwAction("store_false"))>>),
                     BoolVal(FALSE), MISSING)>>
    \* Needed {n: Annotated[int, Arg("--n")]}
    ELSE IF cls = c_Needed
        THEN <<Field(s_n, Annotated("int", <<Arg(<<Opt(s_n)>>, NoKw)>>), MISSING, MISSING)>>
    \* declared types beyond a plain type
    ELSE IF cls = c_Dict THEN <<Field(s_x, Plain("dict[str,int]"), MISSING, MISSING)>>
    ELSE IF cls = c_Union3
        THEN <<Field(s_x, Plain("Union[int,str,None]"), MISSING, MISSING)>>
    ELSE IF cls = c_List2 THEN <<Field(s_x, Plain("list[int,str]"), MISSING, MISSING)>>
    ELSE IF cls = c_Pep604
        THEN <<Field(s_a, Plain("int"), MISSING, MISSING),
               Field(s_x, Plain("int|str"), MISSING, MISSING)>>
    ELSE IF cls = c_Optional
        THEN <<Field(s_x, Plain("Optional[int]"), MISSING, MISSING)>>
    ELSE IF cls = c_List1 THEN <<Field(s_x, Plain("list[int]"), MISSING, MISSING)>>
    ELSE <<>>

\* _add_dataclass_arguments(parser, cls)
add_dataclass_arguments(parser, cls) == add_dataclass_arguments_from(parser, fields(cls), 1)

\* _namespace_to_dataclass(ns, cls): getattr of a missing field is an AttributeError
namespace_to_dataclass(ns, cls) ==
    LET fs == fields(cls)
        names == {fs[k].name : k \in 1..Len(fs)}
    IN  IF \E nm \in names : nm \notin DOMAIN ns
        THEN [raised |-> "AttributeError", args |-> [cls |-> cls, vals |-> EmptyFn]]
        ELSE [raised |-> "", args |-> [cls |-> cls, vals |-> [nm \in names |-> ns[nm]]]]

----------------------------------------------------------------------------
(* _Parser *)

NoBuilder == [subparsers |-> FALSE, root_cls |-> <<>>, names_left |-> {}]

\* _Parser.__init__(schema, _parser=parser): what was raised, the object's fields
\* (_subparsers is not None, _root_cls with <<>> for None, _names_left) and the parser
Parser_init(schema, parser) ==
    IF schema.kind = "tuple"
    THEN LET names == {schema.names[k] : k \in 1..Len(schema.names)}
         IN  IF names = {}
             THEN [raised |-> "ValueError: tuple[str,...] must list at least one sub-command",
                   builder |-> NoBuilder, parser |-> parser]
             ELSE [raised |-> "",
                   builder |-> [subparsers |-> TRUE, root_cls |-> <<>>,
                                names_left |-> names],
                   parser |-> ap_add_subparsers(parser)]
    ELSE IF schema.kind = "dataclass"
    THEN LET populated(r) ==
                 [raised |-> r.raised,
                  builder |-> [subparsers |-> FALSE, root_cls |-> schema.cls,
                               names_left |-> {}],
                  parser |-> r.parser]
         IN  populated(add_dataclass_arguments(parser, schema.cls))
    ELSE [raised |-> "TypeError: schema must be dataclass or tuple[str,...]",
          builder |-> NoBuilder, parser |-> parser]

\* self._subparsers.add_parser(name): a new parser, known to its parent by name
ap_add_parser(ps, path, name) ==
    (Append(path, name) :> ap_ArgumentParser) @@ [ps EXCEPT ![path].choices = @ \cup {name}]

\* a bug: the name stays in _names_left
names_left_keep(names_left, name) == names_left

\* line 134: self._names_left.remove(name)
names_left_remove(names_left, name) == names_left \ {name}

\* a bug: a dataclass is accepted without a handler
leaf_check_handler_optional(schema, func) ==
    IF schema.kind # "dataclass" /\ func # NoneVal
    THEN "ValueError: Handler can only be attached to a dataclass leaf"
    ELSE ""

\* lines 140-145: the leaf and handler rules
leaf_check(schema, func) ==
    IF schema.kind = "dataclass"
    THEN IF func = NoneVal THEN "ValueError: Leaf subparser requires a handler" ELSE ""
    ELSE IF func # NoneVal
         THEN "ValueError: Handler can only be attached to a dataclass leaf"
         ELSE ""

\* a bug: the markers are set on the parent's parser, self._parser.set_defaults(...)
set_leaf_defaults_on_self(ps, path, child, schema, func) ==
    IF schema.kind = "dataclass"
    THEN [ps EXCEPT ![path] =
             ap_set_defaults(@, (k_cls :> ClassVal(schema.cls)) @@ (k_handler :> func))]
    ELSE ps

\* line 143: sub.set_defaults(_cls=schema, _handler=func), for a dataclass
set_leaf_defaults(ps, path, child, schema, func) ==
    IF schema.kind = "dataclass"
    THEN [ps EXCEPT ![child] =
             ap_set_defaults(@, (k_cls :> ClassVal(schema.cls)) @@ (k_handler :> func))]
    ELSE ps

\* _Parser.add_subparser(name, schema, func) on the builder at path: what was raised
\* and the builders and parsers afterwards
add_subparser(bs, ps, path, name, schema, func) ==
    LET self == bs[path]
        child == Append(path, name)
        \* lines 137-147, with init what _Parser(schema, _parser=sub) raised and built
        wired(bs1, ps1, init) ==
            LET ps2 == [ps1 EXCEPT ![child] = init.parser]
                check == leaf_check(schema, func)
            IN  IF init.raised # ""
                THEN [raised |-> init.raised, builders |-> bs1, parsers |-> ps2]
                ELSE IF check # ""
                THEN [raised |-> check, builders |-> bs1, parsers |-> ps2]
                ELSE [raised |-> "",
                      builders |-> (child :> init.builder) @@ bs1,
                      parsers |-> set_leaf_defaults(ps2, path, child, schema, func)]
        \* lines 134-136, with ps1 the parsers once the sub-parser is added
        added(bs1, ps1) == wired(bs1, ps1, Parser_init(schema, ps1[child]))
    IN  IF ~self.subparsers
        THEN [raised |-> "RuntimeError: Cannot add subparsers when root is a dataclass",
              builders |-> bs, parsers |-> ps]
        ELSE IF name \notin self.names_left
        THEN [raised |-> "ValueError: Unknown subcommand", builders |-> bs, parsers |-> ps]
        ELSE added([bs EXCEPT ![path].names_left = names_left_remove(@, name)],
                   ap_add_parser(ps, path, name))

NoResult == [args |-> [cls |-> <<>>, vals |-> EmptyFn], func |-> NoneVal]

\* a bug: the check for a missing marker is left out
no_subcommand_unchecked(ns) == FALSE

\* line 159: no leaf stamped the namespace
no_subcommand(ns) == k_cls \notin DOMAIN ns

\* lines 165-167: the markers are deleted from the namespace
scrub(ns) == [d \in (DOMAIN ns) \ {k_cls, k_handler, k_cmd} |-> ns[d]]

\* _Parser.parse_args(argv) on the builder at path: what was raised (SystemExit is the
\* parser's error()) and the Result returned
parse_args(bs, ps, path, argv) ==
    LET self == bs[path]
        \* Result(made, func), or what _namespace_to_dataclass raised
        returned(made, func) ==
            [raised |-> made.raised,
             result |-> IF made.raised = ""
                        THEN [args |-> made.args, func |-> func] ELSE NoResult]
        \* lines 153-170, with ns the namespace the parser returned
        routed(ns) ==
            IF k_handler \notin DOMAIN ns /\ ~self.subparsers /\ self.root_cls # <<>>
            THEN returned(namespace_to_dataclass(ns, self.root_cls), NoneVal)
            ELSE IF no_subcommand(ns) THEN [raised |-> "SystemExit", result |-> NoResult]
            ELSE IF k_handler \notin DOMAIN ns
            THEN [raised |-> "AttributeError", result |-> NoResult]
            ELSE returned(namespace_to_dataclass(scrub(ns), ns[k_cls].s), ns[k_handler])
        \* line 151: a usage error exits, else the namespace is routed
        parsed(r) == IF r.err THEN [raised |-> "SystemExit", result |-> NoResult]
                     ELSE routed(r.ns)
    IN  parsed(ap_parse_args(ps, path, argv))

----------------------------------------------------------------------------
(* The calls a program makes *)

\* at most this many sub-parsers are added to a tree
MaxAdds == 2

\* at most this many tokens are given to a parser built from one dataclass
MaxArgs == 3

n_start == <<"s", "t", "a", "r", "t">>
n_stop == <<"s", "t", "o", "p">>
n_run == <<"r", "u", "n">>

Names == {n_start, n_stop, n_run}

H1 == FuncVal(<<"H", "1">>)
H2 == FuncVal(<<"H", "2">>)

Funcs == {H1, H2, NoneVal}

RootSchemas ==
    {TupleSchema(<<n_start, n_stop>>), TupleSchema(<<>>), Dataclass(c_Port), OtherSchema}

ChildSchemas ==
    {Dataclass(c_Port), Dataclass(c_Named), TupleSchema(<<n_start, n_stop>>),
     TupleSchema(<<>>), OtherSchema}

t_8080 == <<"8", "0", "8", "0">>

\* the names a tuple schema of the model lists; n_run is never listed
Listed == {n_start, n_stop}

\* the sub-command tokens of an argument list: a path no deeper than the tree can be
Paths == UNION {[1..n -> Listed] : n \in 0..MaxAdds}

LeafArgs == {<<>>, <<t_8080>>, <<s_x>>, <<t_8080, Opt(s_verbose)>>}

TreeArgvs == {p \o a : p \in Paths, a \in LeafArgs}

FieldSchemas ==
    {Dataclass(c) : c \in {c_Port, c_Named, c_User, c_Flagged, c_Made, c_Private,
                           c_Explicit, c_Needed, c_Dict, c_Union3, c_List2, c_Pep604,
                           c_Optional, c_List1}}

FieldTokens ==
    {s_alice, <<>>, <<"3">>, <<"-", "5">>, <<"-", "l">>, Opt(s_level), Opt(s_verbose),
     <<"-", "-", "d", "r", "y", "-", "r", "u", "n">>, Opt(s_color), Opt(s_tag),
     Opt(s_quiet), <<"-", "-", "-", "d", "e", "b", "u", "g">>, Opt(s_off), Opt(s_n)}

FieldArgvs == UNION {[1..n -> FieldTokens] : n \in 0..MaxArgs}

NoSchema == [kind |-> "none", names |-> <<>>, cls |-> <<>>]

Call(op, node, name, schema, func, argv, raised, result) ==
    [op |-> op, node |-> node, name |-> name, schema |-> schema, func |-> func,
     argv |-> argv, raised |-> raised, result |-> result]

Init ==
    /\ builders = [x \in {} |-> NoBuilder]
    /\ parsers = [x \in {} |-> ap_ArgumentParser]
    /\ registered = [x \in {} |-> [schema |-> NoSchema, func |-> NoneVal]]
    /\ last = Call("none", <<>>, <<>>, NoSchema, NoneVal, <<>>, "", NoResult)

\* ArgumentParser(schema): the root builder, when the constructor returns
Construct(schema) ==
    /\ DOMAIN builders = {}
    /\ \E init \in {Parser_init(schema, ap_ArgumentParser)} :
           /\ builders' = IF init.raised = "" THEN (<<>> :> init.builder) ELSE builders
           /\ parsers' = IF init.raised = "" THEN (<<>> :> init.parser) ELSE parsers
           /\ last' = Call("construct", <<>>, <<>>, schema, NoneVal, <<>>, init.raised,
                           NoResult)
    /\ UNCHANGED registered

\* builder.add_subparser(name, schema, func) on a builder the caller holds.
\* parse_args changes neither the builders nor the parsers, so the runs are: the
\* construction, calls of add_subparser (failed ones too), then one parse_args.
AddSubparser(path, name, schema, func) ==
    /\ path \in DOMAIN builders
    /\ last.op # "parse_args"
    /\ Cardinality(DOMAIN parsers) <= MaxAdds
    /\ \E r \in {add_subparser(builders, parsers, path, name, schema, func)} :
           /\ builders' = r.builders
           /\ parsers' = r.parsers
           /\ registered' = IF r.raised = ""
                            THEN (Append(path, name) :> [schema |-> schema, func |-> func])
                                 @@ registered
                            ELSE registered
           /\ last' = Call("add_subparser", path, name, schema, func, <<>>, r.raised,
                           NoResult)

\* root.parse_args(argv)
ParseArgs(argv) ==
    /\ <<>> \in DOMAIN builders
    /\ last.op # "parse_args"
    /\ \E r \in {parse_args(builders, parsers, <<>>, argv)} :
           last' = Call("parse_args", <<>>, <<>>, NoSchema, NoneVal, argv, r.raised,
                        r.result)
    /\ UNCHANGED <<builders, parsers, registered>>

Next ==
    \/ \E schema \in RootSchemas : Construct(schema)
    \/ \E path \in DOMAIN builders, name \in Names, schema \in ChildSchemas, func \in Funcs :
          AddSubparser(path, name, schema, func)
    \/ \E argv \in TreeArgvs : ParseArgs(argv)

Spec == Init /\ [][Next]_vars

\* one parser built from one dataclass, and the token lists given to it
FieldsNext ==
    \/ \E schema \in FieldSchemas : Construct(schema)
    \/ \E argv \in FieldArgvs : ParseArgs(argv)

FieldsSpec == Init /\ [][FieldsNext]_vars

----------------------------------------------------------------------------
(* Properties of the builder tree (Spec) *)

IsPrefix(p, q) == Len(p) <= Len(q) /\ SubSeq(q, 1, Len(p)) = p

Rest(p, q) == SubSeq(q, Len(p) + 1, Len(q))

RootIsBranch == <<>> \in DOMAIN builders /\ builders[<<>>].subparsers

\* the leaves: the paths whose add_subparser returned, with a dataclass
Leaves == {p \in DOMAIN registered : registered[p].schema.kind = "dataclass"}

Markers == {k_cls, k_handler, k_cmd}

\* what a parser built from the dataclass alone makes of the tokens
Standalone(cls, toks) ==
    LET init == Parser_init(Dataclass(cls), ap_ArgumentParser)
    IN  parse_args(<<>> :> init.builder, <<>> :> init.parser, <<>>, toks)

\* C1: on a tree built by add_subparser calls, root.parse_args(p followed by tokens
\* valid for the schema S of the leaf registered at p) returns a Result whose args is
\* the instance of S reconstructed from those tokens, without the markers _cls,
\* _handler and _cmd, and whose func is the handler that leaf was registered with;
\* ["start", "8080"] with start bound to {port: int} and H1 gives {port: 8080} and H1.
C1_DispatchToLeaf ==
    (last.op = "parse_args" /\ RootIsBranch) =>
        \A p \in Leaves :
            LET S == registered[p].schema.cls
                alone == Standalone(S, Rest(p, last.argv))
            IN  (IsPrefix(p, last.argv) /\ alone.raised = "") =>
                    /\ last.raised = ""
                    /\ last.result.args = alone.result.args
                    /\ last.result.args.cls = S
                    /\ DOMAIN last.result.args.vals \cap Markers = {}
                    /\ last.result.func = registered[p].func
                    /\ last.result.func \in {H1, H2}
                    /\ (last.argv = <<n_start, t_8080>> /\ S = c_Port) =>
                           last.result.args.vals = (s_port :> IntVal(8080))

\* a leaf is reached while another leaf, with the other handler, is registered
C1_Witness ==
    /\ last.op = "parse_args" /\ RootIsBranch /\ last.raised = ""
    /\ \E p \in Leaves :
          /\ IsPrefix(p, last.argv)
          /\ last.result.func = registered[p].func
          /\ last.result.args.vals # EmptyFn
    /\ \E p, q \in Leaves : registered[p].func # registered[q].func

ReachesLeaf(argv) == \E p \in Leaves : IsPrefix(p, argv)

\* C2: when the root is a branch, parse_args of tokens that do not reach a registered
\* leaf (no sub-command, a name never registered, a branch with no leaf reached under
\* it, a sub-parser left by a failed registration) ends in the parser's usage error
\* and returns no Result.
C2_NoLeafIsUsageError ==
    (last.op = "parse_args" /\ RootIsBranch /\ ~ReachesLeaf(last.argv)) =>
        last.raised = "SystemExit" /\ last.result = NoResult

\* the tokens name a sub-parser that exists but is no registered leaf
C2_Witness ==
    /\ last.op = "parse_args" /\ RootIsBranch /\ last.raised = "SystemExit"
    /\ last.argv # <<>>
    /\ <<Head(last.argv)>> \in DOMAIN parsers
    /\ ~ReachesLeaf(last.argv)
    /\ ~parsers[<<Head(last.argv)>>].subparsers
    /\ ~ap_parse_args(parsers, <<>>, last.argv).err

\* C3: add_subparser with a name outside the node's remaining-permitted set fails (a
\* name never listed always, a name already registered the second time), and a call
\* that returns removes exactly its name from the set.
C3_NameConsumedOnce ==
    [][last'.op = "add_subparser" =>
          LET p == last'.node
              name == last'.name
          IN  /\ name \notin builders[p].names_left => last'.raised # ""
              /\ name = n_run => last'.raised # ""
              /\ Append(p, name) \in DOMAIN registered => last'.raised # ""
              /\ last'.raised = "" =>
                    /\ name \in builders[p].names_left
                    /\ builders'[p].names_left = builders[p].names_left \ {name}
                    /\ \A q \in DOMAIN builders \ {p} :
                          builders'[q].names_left = builders[q].names_left]_vars

\* a name is registered a second time, and the call fails
C3_Witness ==
    /\ last.op = "add_subparser"
    /\ last.raised = "ValueError: Unknown subcommand"
    /\ Append(last.node, last.name) \in DOMAIN registered

\* C4: with a permitted name, add_subparser fails for a dataclass without a handler
\* and for a tuple with a handler; no parser with sub-commands has a handler set, and
\* every registered leaf has the one handler it was registered with.
C4_HandlerRules ==
    /\ [][(/\ last'.op = "add_subparser"
           /\ builders[last'.node].subparsers
           /\ last'.name \in builders[last'.node].names_left) =>
              /\ (last'.schema.kind = "dataclass" /\ last'.func = NoneVal)
                    => last'.raised # ""
              /\ (last'.schema.kind = "tuple" /\ last'.func # NoneVal)
                    => last'.raised # ""]_vars
    /\ [](/\ \A q \in DOMAIN parsers :
                parsers[q].subparsers => k_handler \notin DOMAIN parsers[q].defaults
          /\ \A q \in DOMAIN registered :
                registered[q].schema.kind = "tuple" => registered[q].func = NoneVal
          /\ \A q \in Leaves :
                /\ registered[q].func \in {H1, H2}
                /\ k_handler \in DOMAIN parsers[q].defaults
                /\ parsers[q].defaults[k_handler] = registered[q].func)

\* a dataclass was refused for want of a handler while a leaf is registered
C4_Witness ==
    /\ last.op = "add_subparser"
    /\ last.raised = "ValueError: Leaf subparser requires a handler"
    /\ Leaves # {}

\* C10: an add_subparser call that fails leaves the node as it was: the same
\* remaining-permitted set, the same sub-command names known to the parser.
C10_FailedAddChangesNothing ==
    [][(last'.op = "add_subparser" /\ last'.raised # "") =>
          \A p \in DOMAIN builders :
              /\ builders'[p].names_left = builders[p].names_left
              /\ parsers'[p].choices = parsers[p].choices]_vars

----------------------------------------------------------------------------
(* Properties of one parser built from one dataclass (FieldsSpec) *)

RootIsDataclass ==
    /\ <<>> \in DOMAIN builders
    /\ ~builders[<<>>].subparsers
    /\ builders[<<>>].root_cls # <<>>

RootFields == fields(builders[<<>>].root_cls)

BaseType(f) == extract_field_options(f.type).base

ExplicitFlags(f) == extract_field_options(f.type).flags

ExplicitKw(f) == extract_field_options(f.type).kwargs

HasDefault(f) == f.default # MISSING \/ f.default_factory # MISSING

\* the default a field declares: its default value, or what its default_factory makes
DeclaredDefault(f) ==
    IF f.default # MISSING THEN f.default
    ELSE Val(BaseType(f), f.default_factory.i, f.default_factory.s)

\* --<field name with underscores replaced by hyphens>
HyphenFlag(f) == Opt(Replace(f.name, "_", "-"))

FlagsOf(f) == IF ExplicitFlags(f) # <<>> THEN ExplicitFlags(f) ELSE <<HyphenFlag(f)>>

PlainTypes(fs) == \A k \in 1..Len(fs) : BaseType(fs[k]) \in {"int", "str", "bool"}

NoExplicitAction(fs) == \A k \in 1..Len(fs) : "action" \notin ExplicitKw(fs[k]).keys

RECURSIVE NatToStr(_)
NatToStr(n) ==
    IF n < 10 THEN <<Digits[n + 1]>> ELSE NatToStr(n \div 10) \o <<Digits[(n % 10) + 1]>>

\* the token a value is written as
ToToken(v) ==
    IF v.t = "int"
    THEN IF v.i < 0 THEN <<"-">> \o NatToStr(0 - v.i) ELSE NatToStr(v.i)
    ELSE v.s

\* a token of the field's type
SampleToken(f) == IF BaseType(f) = "int" THEN <<"3">> ELSE s_alice

RECURSIVE MinimalArgv(_, _)
\* tokens for the fields without a default, and none for the others
MinimalArgv(fs, k) ==
    IF k > Len(fs) THEN <<>>
    ELSE (IF HasDefault(fs[k]) \/ BaseType(fs[k]) = "bool" THEN <<>>
          ELSE IF ExplicitFlags(fs[k]) # <<>>
              THEN <<ExplicitFlags(fs[k])[1], SampleToken(fs[k])>>
          ELSE <<SampleToken(fs[k])>>)
         \o MinimalArgv(fs, k + 1)

\* C5: a field that declares a default or a default_factory is optional, positional
\* or flagged: tokens that omit it parse, and the field holds the declared default;
\* {name: str, count: int = 1, verbose: bool = False} parses ["alice", "--verbose"]
\* to {name: "alice", count: 1, verbose: True}.
C5_DefaultMakesOptional ==
    (last.op = "parse_args" /\ RootIsDataclass /\ PlainTypes(RootFields)) =>
        /\ last.argv = MinimalArgv(RootFields, 1) =>
              /\ last.raised = ""
              /\ \A k \in 1..Len(RootFields) :
                    HasDefault(RootFields[k]) =>
                        last.result.args.vals[RootFields[k].name]
                            = DeclaredDefault(RootFields[k])
        /\ (builders[<<>>].root_cls = c_User /\ last.argv = <<s_alice, Opt(s_verbose)>>) =>
              /\ last.raised = ""
              /\ last.result.args.vals
                    = (s_name :> StrVal(s_alice)) @@ (s_count :> IntVal(1))
                      @@ (s_verbose :> BoolVal(TRUE))

FieldValues(f) ==
    IF BaseType(f) = "int" THEN {IntVal(3), IntVal(0 - 5)}
    ELSE IF BaseType(f) = "str" THEN {StrVal(s_alice), StrVal(<<>>)}
    ELSE {BoolVal(TRUE), BoolVal(FALSE)}

\* the instances of a dataclass, over the bounded field values
Instances(fs) ==
    LET names == {fs[k].name : k \in 1..Len(fs)}
        all == UNION {FieldValues(fs[k]) : k \in 1..Len(fs)}
    IN  {v \in [names -> all] : \A k \in 1..Len(fs) : v[fs[k].name] \in FieldValues(fs[k])}

RECURSIVE Render(_, _, _)
\* an instance as tokens: a flag and the value for a flagged field, the value for a
\* positional one, a boolean's flag when its value differs from its default
Render(fs, v, k) ==
    IF k > Len(fs) THEN <<>>
    ELSE LET f == fs[k]
             x == v[f.name]
             d == IF HasDefault(f) THEN DeclaredDefault(f) ELSE BoolVal(FALSE)
         IN  (IF BaseType(f) = "bool" THEN IF x # d THEN <<FlagsOf(f)[1]>> ELSE <<>>
              ELSE IF ExplicitFlags(f) # <<>> THEN <<ExplicitFlags(f)[1], ToToken(x)>>
              ELSE <<ToToken(x)>>)
             \o Render(fs, v, k + 1)

\* C6: round trip: an instance rendered to tokens, parsed by the parser built from
\* its schema and reconstructed, is the instance again.
C6_RoundTrip ==
    (/\ last.op = "parse_args" /\ RootIsDataclass
     /\ PlainTypes(RootFields) /\ NoExplicitAction(RootFields)) =>
        \A v \in Instances(RootFields) :
            last.argv = Render(RootFields, v, 1) =>
                last.raised = "" /\ last.result.args.vals = v

\* C7: a boolean field without an explicit action: with default True the flag gives
\* False and its absence True; with any other default, a default_factory or none, the
\* flag gives True and its absence False.  An explicit action is kept as it is.
C7_BoolToggle ==
    /\ (last.op = "parse_args" /\ RootIsDataclass /\ last.raised = "") =>
          \A k \in 1..Len(RootFields) :
              LET f == RootFields[k]
                  passed == \E j \in 1..Len(last.argv), i \in 1..Len(FlagsOf(f)) :
                                last.argv[j] = FlagsOf(f)[i]
              IN  (BaseType(f) = "bool" /\ "action" \notin ExplicitKw(f).keys) =>
                      last.result.args.vals[f.name]
                          = BoolVal(IF f.default = BoolVal(TRUE) THEN ~passed ELSE passed)
    /\ RootIsDataclass =>
          \A k \in 1..Len(RootFields) :
              "action" \in ExplicitKw(RootFields[k]).keys =>
                  parsers[<<>>].actions[k].action = ExplicitKw(RootFields[k]).action

\* C8: without explicit flags a non-boolean field is a positional named after the
\* field, and a boolean field is the option --<name with hyphens for underscores>
\* stored under the field's name; explicit flags are used as they are, stored under
\* the field's name.
C8_FlagsAndDest ==
    RootIsDataclass =>
        /\ Len(parsers[<<>>].actions) = Len(RootFields)
        /\ \A k \in 1..Len(RootFields) :
              LET f == RootFields[k]
                  a == parsers[<<>>].actions[k]
              IN  /\ a.dest = f.name
                  /\ a.option_strings =
                        IF ExplicitFlags(f) # <<>> THEN ExplicitFlags(f)
                        ELSE IF BaseType(f) = "bool" THEN <<HyphenFlag(f)>>
                        ELSE <<>>

\* the declared types that are neither a plain type, a two-armed optional nor a
\* sequence of one type parameter
Unsupported == {"Union[int,str,None]", "list[int,str]", "dict[str,int]", "int|str"}

\* C9: building a parser from a schema with a field of an unsupported or malformed
\* declared type fails, and no argument is registered for such a field.
C9_UnsupportedTypeRejected ==
    /\ \A p \in DOMAIN parsers : \A k \in 1..Len(parsers[p].actions) :
          parsers[p].actions[k].type \notin Unsupported
    /\ RootIsDataclass =>
          \A k \in 1..Len(RootFields) : BaseType(RootFields[k]) \notin Unsupported

====
